---- MODULE Spec2Model ----
(***************************************************************************)
(* Model of libopendcp/opendcp_common.c: essence classification, asset     *)
(* construction (add_asset), reel assembly (add_asset_to_reel) and reel    *)
(* validation (validate_reel) of a Digital Cinema Package session.         *)
(*                                                                         *)
(* Spec      one package session: the context's namespace variant and one  *)
(*           reel_t, which create_reel re-initialises for each reel of the *)
(*           package, filled by add_asset_to_reel and checked by           *)
(*           validate_reel, the calls in any order and number.             *)
(* SpecAsset add_asset on any file under any package overrides.            *)
(* SpecClass the classifier and the attach over every essence encoding,    *)
(*           an unlisted one included, followed by validation.             *)
(* SpecAgg   the aggregation builders: create_cpl / add_reel_to_cpl,       *)
(*           create_pkl / add_cpl_to_pkl and add_pkl_to_dcp.               *)
(***************************************************************************)
EXTENDS Integers, Sequences, FiniteSets

(* ------------------------------ bounds --------------------------------- *)
\* frame counts (durations, forced duration, forced entry point) are 0 .. MaxDur
MaxDur == 2
\* capacity of each aggregation array (reels of a CPL, CPLs of a PKL, PKLs of a DCP)
MaxSlots == 2

(* --------------------------- enumerations ------------------------------ *)
\* enum ASSET_ESSENCE_TYPE
AET_UNKNOWN     == "AET_UNKNOWN"
AET_MPEG2_VES   == "AET_MPEG2_VES"
AET_JPEG_2000   == "AET_JPEG_2000"
AET_JPEG_2000_S == "AET_JPEG_2000_S"
AET_PCM_24b_48k == "AET_PCM_24b_48k"
AET_PCM_24b_96k == "AET_PCM_24b_96k"
AET_TIMED_TEXT  == "AET_TIMED_TEXT"

EssenceTypes ==
    { AET_UNKNOWN, AET_MPEG2_VES, AET_JPEG_2000, AET_JPEG_2000_S,
      AET_PCM_24b_48k, AET_PCM_24b_96k, AET_TIMED_TEXT }

\* enum ASSET_CLASS_TYPE
ACT_UNKNOWN    == "ACT_UNKNOWN"
ACT_PICTURE    == "ACT_PICTURE"
ACT_SOUND      == "ACT_SOUND"
ACT_TIMED_TEXT == "ACT_TIMED_TEXT"

\* enum XML_NAMESPACE
XML_NS_UNKNOWN == "XML_NS_UNKNOWN"
XML_NS_INTEROP == "XML_NS_INTEROP"
XML_NS_SMPTE   == "XML_NS_SMPTE"

Namespaces == { XML_NS_UNKNOWN, XML_NS_INTEROP, XML_NS_SMPTE }

\* return codes
OPENDCP_NO_ERROR               == "OPENDCP_NO_ERROR"
OPENDCP_ERROR                  == "OPENDCP_ERROR"
OPENDCP_FILEOPEN               == "OPENDCP_FILEOPEN"
OPENDCP_INVALID_TRACK_TYPE     == "OPENDCP_INVALID_TRACK_TYPE"
OPENDCP_NO_PICTURE_TRACK       == "OPENDCP_NO_PICTURE_TRACK"
OPENDCP_MULTIPLE_PICTURE_TRACK == "OPENDCP_MULTIPLE_PICTURE_TRACK"
OPENDCP_SPECIFICATION_MISMATCH == "OPENDCP_SPECIFICATION_MISMATCH"

(* ------------------------------- state --------------------------------- *)
VARIABLES
    ns,        \* opendcp->ns, the package namespace variant
    cur_reel,  \* the reel_t being assembled: main_picture, main_sound, main_subtitle
    first_ns,  \* namespace variant of the first asset placed in a reel; "none" before
    last,      \* the last call of the reel session: arguments, pre-state, result, log
    cfg,       \* opendcp->duration, opendcp->entry_point, opendcp->dcp.aspect_ratio
    built,     \* the last add_asset call: environment, steps taken, asset, result, log
    dcp,       \* dcp_t: pkl_count and the pkl array
    pkl,       \* the pkl_t being filled: cpl_count and the cpl array
    cpl,       \* the cpl_t being filled: reel_count and the reel array
    added,     \* the children handed to each add since the container was created, in order
    outside,   \* the writes add_pkl_to_dcp made outside the dcp_t it was given
    crashed    \* such a write ended the process

agg_vars == << dcp, pkl, cpl, added, outside, crashed >>

vars == << ns, cur_reel, first_ns, last, cfg, built, dcp, pkl, cpl, added, outside, crashed >>

Durations == 0 .. MaxDur

(* ------------------------- get_asset_type ------------------------------ *)
\* an essence_type value that is none of the enumerators the switch lists
AET_UNLISTED == "AET_(unlisted)"

AllEssenceTypes == EssenceTypes \cup { AET_UNLISTED }

\* a variant whose sound and timed-text cases are exchanged
get_asset_type_swapped(asset) ==
    CASE asset.essence_type \in { AET_MPEG2_VES, AET_JPEG_2000, AET_JPEG_2000_S } -> ACT_PICTURE
      [] asset.essence_type \in { AET_PCM_24b_48k, AET_PCM_24b_96k } -> ACT_TIMED_TEXT
      [] asset.essence_type = AET_TIMED_TEXT -> ACT_SOUND
      [] OTHER -> ACT_UNKNOWN

\* a variant that takes the PCM encodings for picture essence too
get_asset_type_pcm_as_picture(asset) ==
    CASE asset.essence_type \in { AET_MPEG2_VES, AET_JPEG_2000, AET_JPEG_2000_S,
                                  AET_PCM_24b_48k, AET_PCM_24b_96k } -> ACT_PICTURE
      [] asset.essence_type = AET_TIMED_TEXT -> ACT_TIMED_TEXT
      [] OTHER -> ACT_UNKNOWN

get_asset_type(asset) ==
    CASE asset.essence_type \in { AET_MPEG2_VES, AET_JPEG_2000, AET_JPEG_2000_S } -> ACT_PICTURE
      [] asset.essence_type \in { AET_PCM_24b_48k, AET_PCM_24b_96k } -> ACT_SOUND
      [] asset.essence_type = AET_TIMED_TEXT -> ACT_TIMED_TEXT
      [] OTHER -> ACT_UNKNOWN

(* ----------------------------- init_asset ------------------------------ *)
\* memset(asset, 0, sizeof(asset_t)): every enumeration field at its zero
\* enumerator, every count at 0, every string empty
init_asset ==
    [ essence_type  |-> AET_UNKNOWN,
      essence_class |-> ACT_UNKNOWN,
      xml_ns        |-> XML_NS_UNKNOWN,
      duration      |-> 0,
      entry_point   |-> 0,
      aspect_ratio  |-> "" ]

(* ----------------------------- create_reel ----------------------------- *)
\* memset(reel, 0, sizeof(reel_t)): three zeroed asset slots
create_reel ==
    [ main_picture  |-> init_asset,
      main_sound    |-> init_asset,
      main_subtitle |-> init_asset ]

(* ---------------------------- validate_reel ---------------------------- *)
\* a variant that counts every filled slot of the reel
picture_count_every_slot(reel) ==
    (IF reel.main_picture.essence_class # ACT_UNKNOWN THEN 1 ELSE 0)
    + (IF reel.main_sound.essence_class # ACT_UNKNOWN THEN 1 ELSE 0)
    + (IF reel.main_subtitle.essence_class # ACT_UNKNOWN THEN 1 ELSE 0)

\* a variant that counts a track of any class as the picture track
picture_count_any_track(reel) ==
    IF \/ reel.main_picture.essence_class # ACT_UNKNOWN
       \/ reel.main_sound.essence_class # ACT_UNKNOWN
       \/ reel.main_subtitle.essence_class # ACT_UNKNOWN
    THEN 1 ELSE 0

\* "check if reel has a picture track": the local counter `picture`
picture_count(reel) ==
    IF reel.main_picture.essence_class = ACT_PICTURE THEN 1 ELSE 0

\* "check specification": either of the two namespace tests fires
\* a variant that compares the namespaces of absent (zero duration) tracks too
specification_mismatch_any_duration(reel) ==
    \/ reel.main_picture.xml_ns # reel.main_sound.xml_ns
    \/ reel.main_picture.xml_ns # reel.main_subtitle.xml_ns

specification_mismatch(reel) ==
    \/ reel.main_sound.duration # 0 /\ reel.main_picture.xml_ns # reel.main_sound.xml_ns
    \/ reel.main_subtitle.duration # 0 /\ reel.main_picture.xml_ns # reel.main_subtitle.xml_ns

\* "check durations": the locals d and duration_mismatch after both tests
\* a variant that takes the duration of the last differing track, shorter or not
check_durations_last_wins(reel) ==
    LET d0  == reel.main_picture.duration
        snd == reel.main_sound.duration
        sub == reel.main_subtitle.duration
        m1  == snd # 0 /\ snd # d0
        d1  == IF m1 THEN snd ELSE d0
        m2  == sub # 0 /\ sub # d1
        d2  == IF m2 THEN sub ELSE d1
    IN  [ d |-> d2, duration_mismatch |-> m1 \/ m2 ]

check_durations(reel) ==
    LET d0  == reel.main_picture.duration
        snd == reel.main_sound.duration
        sub == reel.main_subtitle.duration
        m1  == snd # 0 /\ snd # d0
        d1  == IF m1 /\ snd < d0 THEN snd ELSE d0
        m2  == sub # 0 /\ sub # d1
        d2  == IF m2 /\ sub < d1 THEN sub ELSE d1
    IN  [ d |-> d2, duration_mismatch |-> m1 \/ m2 ]

\* the three assignments made when duration_mismatch is set
adjust_durations(reel, d) ==
    [ main_picture  |-> [ reel.main_picture  EXCEPT !.duration = d ],
      main_sound    |-> [ reel.main_sound    EXCEPT !.duration = d ],
      main_subtitle |-> [ reel.main_subtitle EXCEPT !.duration = d ] ]

\* a variant that tests the namespaces before the picture track
validate_reel_ns_first(reel) ==
    LET c == check_durations(reel)
    IN  IF specification_mismatch(reel)
        THEN [ result |-> OPENDCP_SPECIFICATION_MISMATCH, reel |-> reel, warn |-> FALSE ]
        ELSE IF picture_count(reel) < 1
        THEN [ result |-> OPENDCP_NO_PICTURE_TRACK, reel |-> reel, warn |-> FALSE ]
        ELSE IF c.duration_mismatch
        THEN [ result |-> OPENDCP_NO_ERROR, reel |-> adjust_durations(reel, c.d), warn |-> TRUE ]
        ELSE [ result |-> OPENDCP_NO_ERROR, reel |-> reel, warn |-> FALSE ]

\* the value returned, the reel as left behind, and whether LOG_WARN was emitted
validate_reel(reel) ==
    LET picture == picture_count(reel)
        c       == check_durations(reel)
    IN  IF picture < 1
        THEN [ result |-> OPENDCP_NO_PICTURE_TRACK, reel |-> reel, warn |-> FALSE ]
        ELSE IF picture > 1
        THEN [ result |-> OPENDCP_MULTIPLE_PICTURE_TRACK, reel |-> reel, warn |-> FALSE ]
        ELSE IF specification_mismatch(reel)
        THEN [ result |-> OPENDCP_SPECIFICATION_MISMATCH, reel |-> reel, warn |-> FALSE ]
        ELSE IF c.duration_mismatch
        THEN [ result |-> OPENDCP_NO_ERROR, reel |-> adjust_durations(reel, c.d), warn |-> TRUE ]
        ELSE [ result |-> OPENDCP_NO_ERROR, reel |-> reel, warn |-> FALSE ]

(* -------------------------- add_asset_to_reel -------------------------- *)
\* the namespace test at the head of add_asset_to_reel:
\* the package namespace afterwards and whether the call goes on
\* a variant that takes the namespace of every asset as the package's
detect_ns_overwrite(pkg_ns, asset) ==
    [ ns |-> asset.xml_ns, ok |-> TRUE ]

\* a variant that never compares a committed namespace with the asset's
detect_ns_no_check(pkg_ns, asset) ==
    [ ns |-> IF pkg_ns = XML_NS_UNKNOWN THEN asset.xml_ns ELSE pkg_ns, ok |-> TRUE ]

detect_ns(pkg_ns, asset) ==
    IF pkg_ns = XML_NS_UNKNOWN
    THEN [ ns |-> asset.xml_ns, ok |-> TRUE ]
    ELSE [ ns |-> pkg_ns, ok |-> pkg_ns = asset.xml_ns ]

\* a variant that keeps the asset a slot already holds
place_asset_keep_first(reel, asset) ==
    LET result == get_asset_type(asset)
    IN  CASE result = ACT_PICTURE ->
               [ reel |-> IF reel.main_picture.essence_type # AET_UNKNOWN THEN reel
                          ELSE [ reel EXCEPT !.main_picture = asset ],
                 result |-> OPENDCP_NO_ERROR ]
          [] result = ACT_SOUND ->
               [ reel |-> IF reel.main_sound.essence_type # AET_UNKNOWN THEN reel
                          ELSE [ reel EXCEPT !.main_sound = asset ],
                 result |-> OPENDCP_NO_ERROR ]
          [] result = ACT_TIMED_TEXT ->
               [ reel |-> IF reel.main_subtitle.essence_type # AET_UNKNOWN THEN reel
                          ELSE [ reel EXCEPT !.main_subtitle = asset ],
                 result |-> OPENDCP_NO_ERROR ]
          [] OTHER ->
               [ reel |-> reel, result |-> OPENDCP_ERROR ]

\* the switch on the asset's class: the reel afterwards and the value returned
place_asset(reel, asset) ==
    LET result == get_asset_type(asset)
    IN  CASE result = ACT_PICTURE ->
               [ reel |-> [ reel EXCEPT !.main_picture = asset ], result |-> OPENDCP_NO_ERROR ]
          [] result = ACT_SOUND ->
               [ reel |-> [ reel EXCEPT !.main_sound = asset ], result |-> OPENDCP_NO_ERROR ]
          [] result = ACT_TIMED_TEXT ->
               [ reel |-> [ reel EXCEPT !.main_subtitle = asset ], result |-> OPENDCP_NO_ERROR ]
          [] OTHER ->
               [ reel |-> reel, result |-> OPENDCP_ERROR ]

\* a variant that commits the package namespace only when the asset is placed
add_asset_to_reel_commit_on_success(pkg_ns, reel, asset) ==
    LET n == detect_ns(pkg_ns, asset)
        p == place_asset(reel, asset)
    IN  IF ~ n.ok
        THEN [ result |-> OPENDCP_SPECIFICATION_MISMATCH, ns |-> pkg_ns, reel |-> reel ]
        ELSE [ result |-> p.result,
               ns |-> IF p.result = OPENDCP_NO_ERROR THEN n.ns ELSE pkg_ns,
               reel |-> p.reel ]

add_asset_to_reel(pkg_ns, reel, asset) ==
    LET n == detect_ns(pkg_ns, asset)
        p == place_asset(reel, asset)
    IN  IF ~ n.ok
        THEN [ result |-> OPENDCP_SPECIFICATION_MISMATCH, ns |-> n.ns, reel |-> reel ]
        ELSE [ result |-> p.result, ns |-> n.ns, reel |-> p.reel ]

(* ------------------------------ add_asset ------------------------------ *)
\* track class recorded in the asset by the essence probe
probe_class(essence_type) ==
    CASE essence_type \in { AET_MPEG2_VES, AET_JPEG_2000, AET_JPEG_2000_S } -> ACT_PICTURE
      [] essence_type \in { AET_PCM_24b_48k, AET_PCM_24b_96k } -> ACT_SOUND
      [] essence_type = AET_TIMED_TEXT -> ACT_TIMED_TEXT
      [] OTHER -> ACT_UNKNOWN

\* the essence probe: what the file holds is an input, `essence`
read_asset_info(asset, essence) ==
    IF essence.result = OPENDCP_ERROR
    THEN [ result |-> OPENDCP_ERROR, asset |-> asset ]
    ELSE [ result |-> OPENDCP_NO_ERROR,
           asset  |-> [ asset EXCEPT !.essence_type  = essence.essence_type,
                                     !.essence_class = probe_class(essence.essence_type),
                                     !.xml_ns        = essence.xml_ns,
                                     !.duration      = essence.duration,
                                     !.aspect_ratio  = essence.aspect_ratio ] ]

\* "force aspect ratio, if specified"
force_aspect_ratio(opendcp, asset) ==
    IF opendcp.aspect_ratio # ""
    THEN [ asset EXCEPT !.aspect_ratio = opendcp.aspect_ratio ]
    ELSE asset

\* "Set duration, if specified": the asset afterwards and whether LOG_WARN was emitted
set_duration(opendcp, asset) ==
    IF opendcp.duration # 0
    THEN IF opendcp.duration < asset.duration
         THEN [ asset |-> [ asset EXCEPT !.duration = opendcp.duration ], warn |-> FALSE ]
         ELSE [ asset |-> asset, warn |-> TRUE ]
    ELSE [ asset |-> asset, warn |-> FALSE ]

\* "Set entry point, if specified"
set_entry_point(opendcp, asset) ==
    IF opendcp.entry_point # 0
    THEN IF opendcp.entry_point < asset.duration
         THEN [ asset |-> [ asset EXCEPT !.entry_point = opendcp.entry_point ], warn |-> FALSE ]
         ELSE [ asset |-> asset, warn |-> TRUE ]
    ELSE [ asset |-> asset, warn |-> FALSE ]

\* the overrides applied to a probed asset, in the order of the code
apply_overrides(opendcp, asset) ==
    LET a1 == force_aspect_ratio(opendcp, asset)
        a2 == set_duration(opendcp, a1)
        a3 == set_entry_point(opendcp, a2.asset)
    IN  [ asset |-> a3.asset, warn_duration |-> a2.warn, warn_entry_point |-> a3.warn ]

\* a variant that goes on to the size query and the probe when fopen failed
add_asset_no_open_check(opendcp, file) ==
    LET probe == read_asset_info(init_asset, file.essence)
        o     == apply_overrides(opendcp, probe.asset)
    IN  IF probe.result = OPENDCP_ERROR
        THEN [ result |-> OPENDCP_INVALID_TRACK_TYPE, asset |-> probe.asset,
               steps |-> << "fopen", "stat", "read_asset_info" >>,
               warn_duration |-> FALSE, warn_entry_point |-> FALSE ]
        ELSE [ result |-> OPENDCP_NO_ERROR, asset |-> o.asset,
               steps |-> << "fopen", "stat", "read_asset_info", "overrides" >>,
               warn_duration |-> o.warn_duration, warn_entry_point |-> o.warn_entry_point ]

\* `file` is what the file system and the probe answer for the path:
\* whether fopen succeeds and what the essence probe finds.
\* steps lists the collaborators called and the stages reached, in order.
add_asset(opendcp, file) ==
    LET probe == read_asset_info(init_asset, file.essence)
        o     == apply_overrides(opendcp, probe.asset)
    IN  IF ~ file.openable
        THEN [ result |-> OPENDCP_FILEOPEN, asset |-> init_asset,
               steps |-> << "fopen" >>,
               warn_duration |-> FALSE, warn_entry_point |-> FALSE ]
        ELSE IF probe.result = OPENDCP_ERROR
        THEN [ result |-> OPENDCP_INVALID_TRACK_TYPE, asset |-> probe.asset,
               steps |-> << "fopen", "stat", "read_asset_info" >>,
               warn_duration |-> FALSE, warn_entry_point |-> FALSE ]
        ELSE [ result |-> OPENDCP_NO_ERROR, asset |-> o.asset,
               steps |-> << "fopen", "stat", "read_asset_info", "overrides" >>,
               warn_duration |-> o.warn_duration, warn_entry_point |-> o.warn_entry_point ]

(* ------------------------ aggregation builders ------------------------- *)
\* Only the aggregation fields of cpl_t, pkl_t and dcp_t are kept: the count and
\* the array. A child (a reel_t, cpl_t or pkl_t passed by value) is the value
\* memcpy copies; it stands here for the whole struct and is named by its uuid.
SlotIndex == 0 .. (MaxSlots - 1)

\* a slot as memset leaves it
ZeroChild == ""

Children == { "uuid-a", "uuid-b" }

\* create_cpl: memset(cpl, 0, sizeof(cpl_t)); cpl->reel_count = 0
create_cpl == [ reel_count |-> 0, reel |-> [ i \in SlotIndex |-> ZeroChild ] ]

\* create_pkl: memset(pkl, 0, sizeof(pkl_t)); pkl->cpl_count = 0
create_pkl == [ cpl_count |-> 0, cpl |-> [ i \in SlotIndex |-> ZeroChild ] ]

\* the dcp_t inside the context opendcp_create zeroes
create_dcp == [ pkl_count |-> 0, pkl |-> [ i \in SlotIndex |-> ZeroChild ] ]

\* a variant that copies every reel into the first slot
add_reel_to_cpl_first_slot(c, reel) ==
    [ c EXCEPT !.reel[0] = reel, !.reel_count = @ + 1 ]

\* memcpy(&cpl->reel[cpl->reel_count], &reel, sizeof(reel_t)); cpl->reel_count++
add_reel_to_cpl(c, reel) ==
    [ c EXCEPT !.reel[c.reel_count] = reel, !.reel_count = @ + 1 ]

\* memcpy(&pkl->cpl[pkl->cpl_count], &cpl, sizeof(cpl_t)); pkl->cpl_count++
add_cpl_to_pkl(p, c) ==
    [ p EXCEPT !.cpl[p.cpl_count] = c, !.cpl_count = @ + 1 ]

\* memcpy(dcp[dcp->pkl_count].pkl, &pkl, sizeof(pkl_t)); dcp->pkl_count++
\* The destination is the pkl array of the dcp_t that lies pkl_count objects
\* after *dcp: with pkl_count = 0 that is dcp->pkl[0]; with pkl_count > 0 it is
\* storage outside *dcp, which either takes the write or faults (`fault`).
add_pkl_to_dcp(d, p, fault) ==
    IF d.pkl_count = 0
    THEN [ dcp |-> [ d EXCEPT !.pkl[0] = p, !.pkl_count = @ + 1 ],
           outside |-> << >>, crashed |-> FALSE ]
    ELSE IF fault
    THEN [ dcp |-> d, outside |-> << >>, crashed |-> TRUE ]
    ELSE [ dcp |-> [ d EXCEPT !.pkl_count = @ + 1 ],
           outside |-> << [ object |-> d.pkl_count, value |-> p ] >>, crashed |-> FALSE ]

(* ------------------------------- inputs -------------------------------- *)
\* what the essence probe can find in a file
Essences ==
    [ result : { OPENDCP_NO_ERROR }, essence_type : EssenceTypes, xml_ns : Namespaces,
      duration : Durations, aspect_ratio : { "1.85" } ]
    \cup
    [ result : { OPENDCP_ERROR }, essence_type : { AET_UNKNOWN }, xml_ns : { XML_NS_UNKNOWN },
      duration : { 0 }, aspect_ratio : { "" } ]

Files == [ openable : BOOLEAN, essence : Essences ]

\* package overrides: opendcp->duration, opendcp->entry_point, opendcp->dcp.aspect_ratio
Overrides == [ duration : Durations, entry_point : Durations, aspect_ratio : { "", "2.39" } ]

NoOverrides == [ duration |-> 0, entry_point |-> 0, aspect_ratio |-> "" ]

\* the assets handed to add_asset_to_reel: what the probe makes of a file holding
\* an essence of one of the AttachTypes (one encoding of each track class, and
\* an unrecognised one), in any namespace variant and of any duration
AttachTypes == { AET_UNKNOWN, AET_JPEG_2000, AET_PCM_24b_48k, AET_TIMED_TEXT }

Assets ==
    { read_asset_info(init_asset, e).asset :
        e \in { x \in Essences : x.result = OPENDCP_NO_ERROR /\ x.essence_type \in AttachTypes } }

\* the same over every essence encoding, at one duration
AllAssets ==
    { [ init_asset EXCEPT !.essence_type = t, !.essence_class = probe_class(t),
                          !.xml_ns = n, !.duration = 1 ] :
        t \in AllEssenceTypes, n \in Namespaces }

(* ------------------------------ actions -------------------------------- *)
\* last: the last call made on the reel, its argument, what it returned, whether it
\* logged a warning, and the reel and package namespace it started from
NoCall ==
    [ op |-> "none", asset |-> init_asset, result |-> OPENDCP_NO_ERROR,
      warn |-> FALSE, pre_reel |-> create_reel, pre_ns |-> XML_NS_UNKNOWN ]

NoBuild ==
    [ file |-> [ openable |-> FALSE, essence |-> CHOOSE e \in Essences : e.result = OPENDCP_ERROR ],
      called |-> FALSE, result |-> OPENDCP_NO_ERROR, asset |-> init_asset, steps |-> << >>,
      warn_duration |-> FALSE, warn_entry_point |-> FALSE ]

NoneAdded == [ pkl |-> << >>, cpl |-> << >>, reel |-> << >> ]

\* the containers before anything is added
InitAgg ==
    /\ dcp = create_dcp
    /\ pkl = create_pkl
    /\ cpl = create_cpl
    /\ added = NoneAdded
    /\ outside = << >>
    /\ crashed = FALSE

\* opendcp_create zeroes the context (ns = XML_NS_UNKNOWN); the reel is freshly created
Init ==
    /\ ns = XML_NS_UNKNOWN
    /\ cur_reel = create_reel
    /\ first_ns = "none"
    /\ last = NoCall
    /\ cfg = NoOverrides
    /\ built = NoBuild
    /\ InitAgg

\* the next reel of the package is begun in the same reel_t
CreateReel ==
    /\ cur_reel' = create_reel
    /\ last' = [ NoCall EXCEPT !.op = "create_reel", !.pre_reel = cur_reel, !.pre_ns = ns ]
    /\ UNCHANGED << ns, first_ns, cfg, built >>
    /\ UNCHANGED agg_vars

AddAssetToReel(asset) ==
    /\ LET o == add_asset_to_reel(ns, cur_reel, asset)
       IN  /\ ns' = o.ns
           /\ cur_reel' = o.reel
           /\ last' = [ op |-> "add_asset_to_reel", asset |-> asset,
                        result |-> o.result, warn |-> FALSE,
                        pre_reel |-> cur_reel, pre_ns |-> ns ]
           /\ first_ns' = IF first_ns = "none" /\ o.result = OPENDCP_NO_ERROR
                           THEN asset.xml_ns ELSE first_ns
    /\ UNCHANGED << cfg, built >>
    /\ UNCHANGED agg_vars

ValidateReel ==
    /\ LET o == validate_reel(cur_reel)
       IN  /\ cur_reel' = o.reel
           /\ last' = [ op |-> "validate_reel", asset |-> init_asset,
                        result |-> o.result, warn |-> o.warn,
                        pre_reel |-> cur_reel, pre_ns |-> ns ]
    /\ UNCHANGED << ns, first_ns, cfg, built >>
    /\ UNCHANGED agg_vars

Next ==
    \/ CreateReel
    \/ \E asset \in Assets : AddAssetToReel(asset)
    \/ ValidateReel

Spec == Init /\ [][Next]_vars

\* the asset builder on its own: any package overrides, any file
InitAsset ==
    /\ ns = XML_NS_UNKNOWN
    /\ cur_reel = create_reel
    /\ first_ns = "none"
    /\ last = NoCall
    /\ cfg \in Overrides
    /\ built = NoBuild
    /\ InitAgg

AddAsset(file) ==
    /\ LET o == add_asset(cfg, file)
       IN  built' = [ file |-> file, called |-> TRUE, result |-> o.result, asset |-> o.asset,
                      steps |-> o.steps, warn_duration |-> o.warn_duration,
                      warn_entry_point |-> o.warn_entry_point ]
    /\ UNCHANGED << ns, cur_reel, first_ns, last, cfg >>
    /\ UNCHANGED agg_vars

NextAsset == \E file \in Files : AddAsset(file)

SpecAsset == InitAsset /\ [][NextAsset]_vars

\* the classifier called on its own: it returns the class and writes nothing
GetAssetType(asset) ==
    /\ last' = [ op |-> "get_asset_type", asset |-> asset,
                 result |-> get_asset_type(asset), warn |-> FALSE,
                 pre_reel |-> cur_reel, pre_ns |-> ns ]
    /\ UNCHANGED << ns, cur_reel, first_ns, cfg, built >>
    /\ UNCHANGED agg_vars

NextClass ==
    \/ CreateReel
    \/ \E asset \in AllAssets : GetAssetType(asset)
    \/ \E asset \in AllAssets : AddAssetToReel(asset)
    \/ ValidateReel

SpecClass == Init /\ [][NextClass]_vars

\* the aggregation builders on their own; every add stays within the capacity
reel_vars == << ns, cur_reel, first_ns, last, cfg, built >>

CreateCpl ==
    /\ ~ crashed
    /\ cpl' = create_cpl
    /\ added' = [ added EXCEPT !.reel = << >> ]
    /\ UNCHANGED << dcp, pkl, outside, crashed >>
    /\ UNCHANGED reel_vars

AddReelToCpl(reel) ==
    /\ ~ crashed
    /\ cpl.reel_count < MaxSlots
    /\ cpl' = add_reel_to_cpl(cpl, reel)
    /\ added' = [ added EXCEPT !.reel = Append(@, reel) ]
    /\ UNCHANGED << dcp, pkl, outside, crashed >>
    /\ UNCHANGED reel_vars

CreatePkl ==
    /\ ~ crashed
    /\ pkl' = create_pkl
    /\ added' = [ added EXCEPT !.cpl = << >> ]
    /\ UNCHANGED << dcp, cpl, outside, crashed >>
    /\ UNCHANGED reel_vars

AddCplToPkl(c) ==
    /\ ~ crashed
    /\ pkl.cpl_count < MaxSlots
    /\ pkl' = add_cpl_to_pkl(pkl, c)
    /\ added' = [ added EXCEPT !.cpl = Append(@, c) ]
    /\ UNCHANGED << dcp, cpl, outside, crashed >>
    /\ UNCHANGED reel_vars

AddPklToDcp(p, fault) ==
    /\ ~ crashed
    /\ dcp.pkl_count < MaxSlots
    /\ LET o == add_pkl_to_dcp(dcp, p, fault)
       IN  /\ dcp' = o.dcp
           /\ outside' = outside \o o.outside
           /\ crashed' = o.crashed
    /\ added' = [ added EXCEPT !.pkl = Append(@, p) ]
    /\ UNCHANGED << pkl, cpl >>
    /\ UNCHANGED reel_vars

NextAgg ==
    \/ CreateCpl
    \/ \E reel \in Children : AddReelToCpl(reel)
    \/ CreatePkl
    \/ \E c \in Children : AddCplToPkl(c)
    \/ \E p \in Children, fault \in BOOLEAN : AddPklToDcp(p, fault)

SpecAgg == Init /\ [][NextAgg]_vars

(* ------------------------- vocabulary of the claims -------------------- *)
Validated == last.op = "validate_reel"

Attached == last.op = "add_asset_to_reel"

\* the picture slot holds a Picture-class asset
HoldsPicture(rl) == rl.main_picture.essence_class = ACT_PICTURE

\* a Sound / TimedText track is present when its duration is not zero
Present(track) == track.duration # 0

\* a slot filled by add_asset_to_reel: only recognised essences are placed
Held(track) == track.essence_type # AET_UNKNOWN

Slots(rl) == { rl.main_picture, rl.main_sound, rl.main_subtitle }

\* a present Sound or TimedText track whose namespace is not the picture's
NamespaceDiffers(rl) ==
    \/ Present(rl.main_sound) /\ rl.main_sound.xml_ns # rl.main_picture.xml_ns
    \/ Present(rl.main_subtitle) /\ rl.main_subtitle.xml_ns # rl.main_picture.xml_ns

\* a present Sound or TimedText track whose duration is not the picture's
DurationDiffers(rl) ==
    \/ Present(rl.main_sound) /\ rl.main_sound.duration # rl.main_picture.duration
    \/ Present(rl.main_subtitle) /\ rl.main_subtitle.duration # rl.main_picture.duration

Min(S) == CHOOSE x \in S : \A y \in S : x <= y

\* the least duration among the picture track and the present tracks
MinDuration(rl) ==
    Min({ rl.main_picture.duration }
        \cup { t.duration : t \in { u \in { rl.main_sound, rl.main_subtitle } : Present(u) } })

SameDurations(a, b) ==
    /\ a.main_picture.duration = b.main_picture.duration
    /\ a.main_sound.duration = b.main_sound.duration
    /\ a.main_subtitle.duration = b.main_subtitle.duration

(* ------------------------------- claims -------------------------------- *)
\* C1: on a reel that holds a Picture track and whose present Sound and TimedText
\* tracks carry the picture's namespace, validate_reel returns no error, and
\* afterwards the picture's duration and the duration of every track that was
\* present before the call equal the least duration among them.
C1_ValidateReconcilesToMinimum ==
    (Validated /\ HoldsPicture(last.pre_reel) /\ ~ NamespaceDiffers(last.pre_reel)) =>
        /\ last.result = OPENDCP_NO_ERROR
        /\ cur_reel.main_picture.duration = MinDuration(last.pre_reel)
        /\ Present(last.pre_reel.main_sound) =>
               cur_reel.main_sound.duration = MinDuration(last.pre_reel)
        /\ Present(last.pre_reel.main_subtitle) =>
               cur_reel.main_subtitle.duration = MinDuration(last.pre_reel)

\* three tracks of one namespace, picture and sound equal, timed text shorter:
\* validated, and all three cut to the timed text's duration
C1_Witness ==
    /\ Validated /\ HoldsPicture(last.pre_reel) /\ ~ NamespaceDiffers(last.pre_reel)
    /\ Present(last.pre_reel.main_sound) /\ Present(last.pre_reel.main_subtitle)
    /\ last.pre_reel.main_sound.duration = last.pre_reel.main_picture.duration
    /\ last.pre_reel.main_subtitle.duration < last.pre_reel.main_picture.duration
    /\ last.result = OPENDCP_NO_ERROR /\ last.warn
    /\ \A t \in Slots(cur_reel) : t.duration = last.pre_reel.main_subtitle.duration

\* C2: in every reel left by a validate_reel that returned no error, a Picture
\* asset is present and every present track (Sound / TimedText of nonzero
\* duration) has the picture's namespace and the picture's duration.
C2_ValidatedTracksAgree ==
    (Validated /\ last.result = OPENDCP_NO_ERROR) =>
        /\ HoldsPicture(cur_reel)
        /\ \A t \in { cur_reel.main_sound, cur_reel.main_subtitle } :
               Present(t) => /\ t.xml_ns = cur_reel.main_picture.xml_ns
                             /\ t.duration = cur_reel.main_picture.duration

\* C3: on a reel whose picture slot holds no Picture-class asset, validate_reel
\* returns OPENDCP_NO_PICTURE_TRACK whatever the other two slots hold.
C3_NoPictureTrack ==
    (Validated /\ ~ HoldsPicture(last.pre_reel)) => last.result = OPENDCP_NO_PICTURE_TRACK

\* no picture, and sound and timed text present with different namespaces and durations
C3_Witness ==
    /\ Validated /\ ~ HoldsPicture(last.pre_reel)
    /\ Present(last.pre_reel.main_sound) /\ Present(last.pre_reel.main_subtitle)
    /\ last.pre_reel.main_sound.xml_ns # last.pre_reel.main_subtitle.xml_ns
    /\ last.pre_reel.main_sound.duration # last.pre_reel.main_subtitle.duration
    /\ last.result = OPENDCP_NO_PICTURE_TRACK

\* C4: on a reel that holds a Picture track, validate_reel returns
\* OPENDCP_SPECIFICATION_MISMATCH exactly when a Sound or TimedText track of
\* nonzero duration has a namespace other than the picture's (a track of zero
\* duration never causes it), and then the three durations are unchanged.
C4_SpecificationMismatchIff ==
    (Validated /\ HoldsPicture(last.pre_reel)) =>
        /\ last.result = OPENDCP_SPECIFICATION_MISMATCH <=> NamespaceDiffers(last.pre_reel)
        /\ last.result = OPENDCP_SPECIFICATION_MISMATCH => SameDurations(cur_reel, last.pre_reel)

\* a sound slot of zero duration and another namespace is passed over, and the
\* present timed text of another namespace raises the error
C4_Witness ==
    /\ Validated /\ HoldsPicture(last.pre_reel)
    /\ ~ Present(last.pre_reel.main_sound)
    /\ last.pre_reel.main_sound.xml_ns # last.pre_reel.main_picture.xml_ns
    /\ Present(last.pre_reel.main_subtitle)
    /\ last.pre_reel.main_subtitle.xml_ns # last.pre_reel.main_picture.xml_ns
    /\ last.pre_reel.main_subtitle.duration # last.pre_reel.main_picture.duration
    /\ last.result = OPENDCP_SPECIFICATION_MISMATCH
    /\ SameDurations(cur_reel, last.pre_reel)

\* C5: add_asset_to_reel with the package namespace committed and an asset of
\* another namespace returns OPENDCP_SPECIFICATION_MISMATCH and leaves the reel
\* and the package namespace as they were, whatever the asset's track class.
C5_AttachMismatchRejected ==
    (Attached /\ last.pre_ns # XML_NS_UNKNOWN /\ last.asset.xml_ns # last.pre_ns) =>
        /\ last.result = OPENDCP_SPECIFICATION_MISMATCH
        /\ cur_reel = last.pre_reel
        /\ ns = last.pre_ns

\* a picture of the other committed variant offered to a reel that holds a picture
C5_Witness ==
    /\ Attached /\ last.pre_ns = XML_NS_INTEROP /\ last.asset.xml_ns = XML_NS_SMPTE
    /\ get_asset_type(last.asset) = ACT_PICTURE
    /\ Held(last.pre_reel.main_picture)
    /\ last.result = OPENDCP_SPECIFICATION_MISMATCH
    /\ cur_reel = last.pre_reel /\ ns = last.pre_ns

\* C6: after any sequence of attaches, every asset held in a reel slot carries the
\* namespace variant of the first asset attached, which is the package's variant.
C6_UniformNamespace ==
    first_ns # "none" =>
        \A t \in Slots(cur_reel) : Held(t) => (t.xml_ns = first_ns /\ t.xml_ns = ns)

\* C7: the package namespace changes at most once, from XML_NS_UNKNOWN to the
\* namespace of the asset being attached; once committed no call changes it.
C7_NamespaceCommittedOnce ==
    /\ (last.op # "none" /\ last.pre_ns # XML_NS_UNKNOWN) => ns = last.pre_ns
    /\ (Attached /\ last.pre_ns = XML_NS_UNKNOWN) => ns = last.asset.xml_ns
    /\ (last.op # "none" /\ ~ Attached) => ns = last.pre_ns

\* a second asset of the committed variant is placed and the variant stays
C7_Witness ==
    /\ Attached /\ last.pre_ns # XML_NS_UNKNOWN
    /\ \E t \in Slots(last.pre_reel) : Held(t) /\ t.xml_ns = last.pre_ns
    /\ last.result = OPENDCP_NO_ERROR /\ cur_reel # last.pre_reel
    /\ ns = last.pre_ns

\* C8: validate_reel reports the first failing check: no picture track before a
\* namespace mismatch, a namespace mismatch before any duration is reconciled,
\* and with a picture track and no namespace mismatch it never fails.
C8_ValidatePriority ==
    Validated =>
        /\ ~ HoldsPicture(last.pre_reel) => last.result = OPENDCP_NO_PICTURE_TRACK
        /\ (HoldsPicture(last.pre_reel) /\ NamespaceDiffers(last.pre_reel)) =>
               (last.result = OPENDCP_SPECIFICATION_MISMATCH /\ cur_reel = last.pre_reel /\ ~ last.warn)
        /\ (HoldsPicture(last.pre_reel) /\ ~ NamespaceDiffers(last.pre_reel)) =>
               last.result = OPENDCP_NO_ERROR

\* a picture track, a sound track of another namespace and of another duration
C8_Witness ==
    /\ Validated /\ HoldsPicture(last.pre_reel)
    /\ Present(last.pre_reel.main_sound)
    /\ last.pre_reel.main_sound.xml_ns # last.pre_reel.main_picture.xml_ns
    /\ last.pre_reel.main_sound.duration # last.pre_reel.main_picture.duration
    /\ last.result = OPENDCP_SPECIFICATION_MISMATCH /\ cur_reel = last.pre_reel

(* add_asset *)
Built == built.called

\* position of a step in the steps of the last add_asset call; 0 when it was not taken
StepAt(step) ==
    IF \E i \in 1 .. Len(built.steps) : built.steps[i] = step
    THEN CHOOSE i \in 1 .. Len(built.steps) : built.steps[i] = step
    ELSE 0

\* the asset as the probe left it, before any override
Probed == read_asset_info(init_asset, built.file.essence).asset

\* C9: add_asset takes its steps in order, each only after the one before succeeded:
\* a path that cannot be opened gives OPENDCP_FILEOPEN with neither the size query
\* nor the probe attempted; the probe runs only after a successful open; the
\* overrides are applied only after a successful probe, a failed probe giving
\* OPENDCP_INVALID_TRACK_TYPE with no override applied.
C9_AddAssetStepOrder ==
    Built =>
        /\ ~ built.file.openable =>
               /\ built.result = OPENDCP_FILEOPEN
               /\ StepAt("stat") = 0 /\ StepAt("read_asset_info") = 0 /\ StepAt("overrides") = 0
               /\ built.asset = init_asset
        /\ StepAt("read_asset_info") # 0 =>
               /\ built.file.openable
               /\ 0 < StepAt("fopen") /\ StepAt("fopen") < StepAt("read_asset_info")
        /\ StepAt("overrides") # 0 =>
               /\ built.file.essence.result = OPENDCP_NO_ERROR
               /\ 0 < StepAt("read_asset_info")
               /\ StepAt("read_asset_info") < StepAt("overrides")
        /\ (built.file.openable /\ built.file.essence.result = OPENDCP_ERROR) =>
               /\ built.result = OPENDCP_INVALID_TRACK_TYPE
               /\ StepAt("overrides") = 0
               /\ built.asset = Probed

\* a path that cannot be opened although it names an essence, with every override set
C9_Witness ==
    /\ Built /\ ~ built.file.openable
    /\ built.file.essence.result = OPENDCP_NO_ERROR
    /\ built.file.essence.essence_type = AET_JPEG_2000
    /\ cfg.duration # 0 /\ cfg.entry_point # 0 /\ cfg.aspect_ratio # ""
    /\ built.result = OPENDCP_FILEOPEN /\ built.steps = << "fopen" >>

\* C10: on a successful add_asset with forced duration f # 0 and probed duration p,
\* f <= p makes the asset's duration f without a warning, and f > p leaves it p
\* with a warning: the warning is emitted exactly when f > p.
C10_ForcedDuration ==
    (Built /\ built.result = OPENDCP_NO_ERROR /\ cfg.duration # 0) =>
        /\ cfg.duration <= Probed.duration =>
               (built.asset.duration = cfg.duration /\ ~ built.warn_duration)
        /\ cfg.duration > Probed.duration =>
               (built.asset.duration = Probed.duration /\ built.warn_duration)
        /\ built.warn_duration <=> cfg.duration > Probed.duration

\* C11: on a successful add_asset with forced entry point e # 0, e <= duration (the
\* asset's duration once the forced duration has been applied) makes the asset's
\* entry point e, and e > duration leaves the probed entry point with a warning.
C11_ForcedEntryPoint ==
    (Built /\ built.result = OPENDCP_NO_ERROR /\ cfg.entry_point # 0) =>
        /\ cfg.entry_point <= built.asset.duration =>
               built.asset.entry_point = cfg.entry_point
        /\ cfg.entry_point > built.asset.duration =>
               (built.asset.entry_point = Probed.entry_point /\ built.warn_entry_point)


\* slot i of a container array holds the i-th child of the sequence, later slots are zero
HoldsInOrder(count, slots, children) ==
    /\ count = Len(children)
    /\ \A i \in SlotIndex :
           slots[i] = IF i < Len(children) THEN children[i + 1] ELSE ZeroChild

\* C12: after k add_pkl_to_dcp calls on a package that held no packaging list, k
\* within the capacity, pkl_count = k and PKL slot i holds the i-th PKL added for
\* every i < k; no call writes outside the next free slot and the count of that
\* package (nor ends the process doing so).
C12_PklAppended ==
    /\ ~ crashed
    /\ outside = << >>
    /\ HoldsInOrder(dcp.pkl_count, dcp.pkl, added.pkl)

\* C13: after k add_reel_to_cpl calls on a freshly created CPL (k add_cpl_to_pkl
\* calls on a freshly created PKL), k within the capacity, the count is k and slot
\* i holds the i-th child added, in insertion order; the slots filled earlier are
\* as they were filled and the slots not yet filled are as create left them.
C13_ChildrenAppended ==
    /\ HoldsInOrder(cpl.reel_count, cpl.reel, added.reel)
    /\ HoldsInOrder(pkl.cpl_count, pkl.cpl, added.cpl)

C13_Witness ==
    /\ Len(added.reel) = 2 /\ added.reel[1] # added.reel[2]
    /\ Len(added.cpl) = 2 /\ added.cpl[1] # added.cpl[2]

Classified == last.op = "get_asset_type"

AssetClasses == { ACT_UNKNOWN, ACT_PICTURE, ACT_SOUND, ACT_TIMED_TEXT }

\* C14: get_asset_type maps MPEG2-VES, JPEG2000 and JPEG2000-stereoscopic to
\* Picture, both PCM encodings to Sound, Timed-Text to TimedText and every other
\* value to Unknown; it returns a class for every input and changes neither the
\* reel nor the package.
C14_ClassifierTable ==
    Classified =>
        LET t == last.asset.essence_type
        IN  /\ last.result \in AssetClasses
            /\ t \in { AET_MPEG2_VES, AET_JPEG_2000, AET_JPEG_2000_S } => last.result = ACT_PICTURE
            /\ t \in { AET_PCM_24b_48k, AET_PCM_24b_96k } => last.result = ACT_SOUND
            /\ t = AET_TIMED_TEXT => last.result = ACT_TIMED_TEXT
            /\ t \in { AET_UNKNOWN, AET_UNLISTED } => last.result = ACT_UNKNOWN
            /\ cur_reel = last.pre_reel
            /\ ns = last.pre_ns

C14_Witness ==
    /\ Classified
    /\ last.asset.essence_type = AET_PCM_24b_96k
    /\ last.result = ACT_SOUND
    /\ Held(cur_reel.main_picture)

\* C15: on no reel built by create_reel and add_asset_to_reel calls does
\* validate_reel return OPENDCP_MULTIPLE_PICTURE_TRACK.
C15_NeverMultiplePicture ==
    Validated => last.result # OPENDCP_MULTIPLE_PICTURE_TRACK

C15_Witness ==
    /\ Validated
    /\ \A track \in Slots(last.pre_reel) : Held(track)
    /\ last.result = OPENDCP_NO_ERROR

\* the namespace check of the last attach passed
NamespaceChecked == Attached /\ last.result # OPENDCP_SPECIFICATION_MISMATCH

\* C16: when the namespace check passes, an asset classified Picture, Sound or
\* TimedText is stored in the slot of its class, whatever that slot held, the
\* other two slots stay as they were and the call returns OPENDCP_NO_ERROR; an
\* asset classified Unknown gets OPENDCP_ERROR and the reel stays as it was.
C16_AttachRouting ==
    NamespaceChecked =>
        LET class == get_asset_type(last.asset)
        IN  /\ class = ACT_PICTURE =>
                 /\ last.result = OPENDCP_NO_ERROR
                 /\ cur_reel = [ last.pre_reel EXCEPT !.main_picture = last.asset ]
            /\ class = ACT_SOUND =>
                 /\ last.result = OPENDCP_NO_ERROR
                 /\ cur_reel = [ last.pre_reel EXCEPT !.main_sound = last.asset ]
            /\ class = ACT_TIMED_TEXT =>
                 /\ last.result = OPENDCP_NO_ERROR
                 /\ cur_reel = [ last.pre_reel EXCEPT !.main_subtitle = last.asset ]
            /\ class = ACT_UNKNOWN =>
                 /\ last.result = OPENDCP_ERROR
                 /\ cur_reel = last.pre_reel

C16_Witness ==
    /\ NamespaceChecked
    /\ get_asset_type(last.asset) = ACT_SOUND
    /\ Held(last.pre_reel.main_sound)
    /\ last.pre_reel.main_sound # last.asset
    /\ cur_reel.main_sound = last.asset

\* an asset that add_asset_to_reel would place, of the variant that `variant` is not
OtherVariantAssets(variant) ==
    { a \in AllAssets : /\ get_asset_type(a) # ACT_UNKNOWN
                        /\ { a.xml_ns, variant } = { XML_NS_INTEROP, XML_NS_SMPTE } }

\* C17: add_asset_to_reel called with the package namespace XML_NS_UNKNOWN and an
\* asset of Unknown track class returns OPENDCP_ERROR and leaves the reel as it
\* was, yet the package namespace is now the asset's; an attach that follows, of
\* an asset of a recognised class and of the other variant, returns
\* OPENDCP_SPECIFICATION_MISMATCH.
C17_FailedAttachCommits ==
    (Attached /\ last.pre_ns = XML_NS_UNKNOWN /\ get_asset_type(last.asset) = ACT_UNKNOWN) =>
        /\ last.result = OPENDCP_ERROR
        /\ cur_reel = last.pre_reel
        /\ ns = last.asset.xml_ns
        /\ \A a \in OtherVariantAssets(last.asset.xml_ns) :
               add_asset_to_reel(ns, cur_reel, a).result = OPENDCP_SPECIFICATION_MISMATCH

\* nothing was ever placed in the package, and a picture is turned away for its variant
C17_Witness ==
    /\ Attached
    /\ first_ns = "none"
    /\ last.pre_ns = XML_NS_INTEROP
    /\ last.asset \in OtherVariantAssets(XML_NS_INTEROP)
    /\ get_asset_type(last.asset) = ACT_PICTURE
    /\ last.result = OPENDCP_SPECIFICATION_MISMATCH

\* the last call was a validate_reel that accepted the reel
Accepted == Validated /\ last.result = OPENDCP_NO_ERROR

\* C18: validate_reel called again on a reel it has just accepted returns
\* OPENDCP_NO_ERROR again and leaves every field of the reel as it is.
C18_ValidateIdempotent ==
    Accepted =>
        /\ validate_reel(cur_reel).result = OPENDCP_NO_ERROR
        /\ validate_reel(cur_reel).reel = cur_reel

\* no present Sound / TimedText track differs from the picture in duration
DurationsAgree(rl) ==
    /\ Present(rl.main_sound) => rl.main_sound.duration = rl.main_picture.duration
    /\ Present(rl.main_subtitle) => rl.main_subtitle.duration = rl.main_picture.duration

\* C19: validate_reel changes nothing of the reel but the durations of its tracks,
\* and nothing at all when it returns an error or when every present Sound /
\* TimedText track already has the picture's duration; a track absent (zero
\* duration) before a call that returns OPENDCP_NO_ERROR is absent after it.
C19_ValidateFrame ==
    Validated =>
        /\ \E d1, d2, d3 \in Durations :
               cur_reel = [ last.pre_reel EXCEPT !.main_picture.duration = d1,
                                                 !.main_sound.duration = d2,
                                                 !.main_subtitle.duration = d3 ]
        /\ last.result # OPENDCP_NO_ERROR => cur_reel = last.pre_reel
        /\ DurationsAgree(last.pre_reel) => cur_reel = last.pre_reel
        /\ last.result = OPENDCP_NO_ERROR =>
               /\ ~ Present(last.pre_reel.main_sound) => ~ Present(cur_reel.main_sound)
               /\ ~ Present(last.pre_reel.main_subtitle) => ~ Present(cur_reel.main_subtitle)

\* the last call attached an asset the classifier maps to Picture
PictureAttached ==
    /\ Attached /\ last.result = OPENDCP_NO_ERROR
    /\ get_asset_type(last.asset) = ACT_PICTURE

\* the reel has had such an asset attached since it was created
HasAttachedPicture(rl) == get_asset_type(rl.main_picture) = ACT_PICTURE

================================================================================
